---- MODULE Spec2Model ----
(***************************************************************************)
(* Model of the Git Smart HTTP bridge of src/gitweb.py:                    *)
(*   FileWrapper, GitRepository (inforefs, backend, __call__) and          *)
(*   GitDirectory (__init__, __call__).                                    *)
(* Strings are sequences of one-character strings, so that Python's        *)
(* str.endswith, str.startswith, str.strip, `in` (substring), hex() and    *)
(* rjust() are computed the way the interpreter computes them.             *)
(***************************************************************************)
EXTENDS Integers, Sequences, FiniteSets, TLC

VARIABLES
    auto_create,       \* GitDirectory.auto_create
    pre_clone_hook,    \* the callable bound to self.pre_clone_hook
    post_clone_hook,   \* the callable bound to self.post_clone_hook
    kwargs,            \* the keyword arguments GitDirectory was built with
    fs,                \* the directories on disk: resolved path -> entries
    fs_before,         \* the disk when the request arrived
    request,           \* the request being served (NoRequest before the first)
    environment,       \* what the operating system does during the request
    status,            \* status given to start_response, or the escaped fault
    log,               \* side effects of the request, in program order
    starting_values,   \* pre-seeded chunks of the response body
    inputstream,       \* what the service subprocess reads its stdin from
    proc,              \* the subprocess behind the response body
    content_length,    \* FileWrapper.content_length
    remain,            \* FileWrapper.remain
    fd_avail,          \* bytes still held by the underlying stream
    returned,          \* bytes FileWrapper.read has handed out so far
    read_at,           \* value of `returned` when the last read was issued
    data,              \* result of the last FileWrapper.read
    fd_called          \* whether the last FileWrapper.read called fd.read

vars == <<auto_create, pre_clone_hook, post_clone_hook, kwargs, fs, fs_before,
          request, environment, status, log, starting_values, inputstream,
          proc, content_length, remain, fd_avail, returned, read_at, data,
          fd_called>>

routerVars == <<auto_create, pre_clone_hook, post_clone_hook, kwargs, fs,
                fs_before, request, environment, status, log, starting_values,
                inputstream, proc>>

readerVars == <<content_length, remain, fd_avail, returned, read_at, data,
                fd_called>>

----------------------------------------------------------------------------
(* Bounds of the model *)

\* largest Content-Length a FileWrapper is built with
MaxContentLength == 5
\* largest size passed to FileWrapper.read
MaxReadSize == 3
\* bytes the underlying stream holds beyond Content-Length (at least one)
MaxExtra == 2

----------------------------------------------------------------------------
(* Python string primitives *)

startswith(s, prefix) ==
    /\ Len(prefix) <= Len(s)
    /\ SubSeq(s, 1, Len(prefix)) = prefix

endswith(s, suffix) ==
    /\ Len(suffix) <= Len(s)
    /\ SubSeq(s, Len(s) - Len(suffix) + 1, Len(s)) = suffix

\* Python's `sub in s` on strings: sub occurs somewhere in s
contains(s, sub) ==
    \E i \in 1..(Len(s) - Len(sub) + 1) : SubSeq(s, i, i + Len(sub) - 1) = sub

RECURSIVE lstrip(_, _)
lstrip(s, c) ==
    IF s # <<>> /\ Head(s) = c THEN lstrip(Tail(s), c) ELSE s

RECURSIVE rstrip(_, _)
rstrip(s, c) ==
    IF s # <<>> /\ s[Len(s)] = c THEN rstrip(SubSeq(s, 1, Len(s) - 1), c) ELSE s

\* str.strip(c)
strip(s, c) == rstrip(lstrip(s, c), c)

\* str.find(c): index (from 0) of the first c, or -1
find(s, c) ==
    IF \E i \in 1..Len(s) : s[i] = c
    THEN (CHOOSE i \in 1..Len(s) : s[i] = c /\ \A j \in 1..(i - 1) : s[j] # c) - 1
    ELSE -1

HexDigits == <<"0","1","2","3","4","5","6","7","8","9","a","b","c","d","e","f">>

\* hex(n)[2:] : lowercase hexadecimal digits of n, no leading zeros
RECURSIVE hex(_)
hex(n) ==
    IF n < 16 THEN <<HexDigits[n + 1]>>
    ELSE hex(n \div 16) \o <<HexDigits[(n % 16) + 1]>>

\* str.rjust(width, fill): pads on the left, never truncates
RECURSIVE rjust(_, _, _)
rjust(s, width, fill) ==
    IF Len(s) >= width THEN s ELSE rjust(<<fill>> \o s, width, fill)

----------------------------------------------------------------------------
(* String constants of the program and of the requests *)

Slash == <<"/">>
DotGit == <<".","g","i","t">>
InfoRefs == <<"/","i","n","f","o","/","r","e","f","s">>
GitUploadPack == <<"g","i","t","-","u","p","l","o","a","d","-","p","a","c","k">>
GitReceivePack == <<"g","i","t","-","r","e","c","e","i","v","e","-","p","a","c","k">>
\* a service name a client may send that is not whitelisted
GitOther == <<"g","i","t","-","x">>
ServicePrefix == <<"#"," ","s","e","r","v","i","c","e","=">>
FlushMarker == <<"0","0","0","0">>

\* GitRepository.commands
commands == {GitUploadPack, GitReceivePack}

\* 'application/x-%s-result' % c
ResultType(c) == <<"application/x-", c, "-result">>

\* GitRepository.valid_accepts
valid_accepts == {ResultType(c) : c \in commands}

\* GitRepository.git_folder_signature
git_folder_signature == {"config", "head", "info", "objects", "refs"}

\* what `git init --bare` leaves in a new directory
GitInitEntries == {"HEAD", "config", "description", "hooks", "info", "objects", "refs"}

\* str.lower() on a directory entry name
lower(f) == IF f = "HEAD" THEN "head" ELSE f

----------------------------------------------------------------------------
(* The content directory and the disk *)

\* GitDirectory.content_path, an absolute canonical directory
BasePath == <<"/","s","r","v">>

Name(c) == <<c>> \o DotGit

\* canonical paths a request can resolve to
InRepo == BasePath \o Slash \o Name("r")      \* a bare repository
InBroken == BasePath \o Slash \o Name("d")    \* a directory missing markers
InMissing == BasePath \o Slash \o Name("n")   \* nothing there
OutEtc == <<"/","e","t","c">>                  \* outside, unrelated name
OutSibling == <<"/","s","r","v","2">>          \* outside, shares a name prefix
OutNested == <<"/","t","/","s","r","v">>       \* outside, base path inside it

RepoPaths == {InRepo, InBroken, InMissing, OutEtc, OutSibling, OutNested}

\* symbolic links under the content directory: link path -> canonical target
Links == {
    <<BasePath \o Slash \o Name("e"), OutEtc>>,
    <<BasePath \o Slash \o Name("p"), OutSibling>>,
    <<BasePath \o Slash \o Name("q"), OutNested>> }

NoDir == [isdir |-> FALSE, files |-> {}]
Dir(files) == [isdir |-> TRUE, files |-> files]

\* the disk when the server starts
InitialDisk == [p \in RepoPaths |->
    CASE p = InRepo     -> Dir(GitInitEntries)
      [] p = InBroken   -> Dir({"HEAD", "config", "objects", "refs"})
      [] p = InMissing  -> NoDir
      [] p = OutEtc     -> Dir({"passwd"})
      [] p = OutSibling -> Dir(GitInitEntries)
      [] p = OutNested  -> NoDir]

\* os.path.join(a, b) for a relative b
join(a, b) == a \o Slash \o b

\* os.path.realpath(p): symbolic links resolved
realpath(p) ==
    IF \E l \in Links : l[1] = p
    THEN (CHOOSE l \in Links : l[1] = p)[2]
    ELSE p

\* the canonical path is the base path or lies below it
IsDescendant(p, base) == p = base \/ startswith(p, base \o Slash)

\* os.path.isdir(p)
isdir(disk, p) == p \in DOMAIN disk /\ disk[p].isdir

\* os.listdir(p): the entries, or the fault it raises
listdir(disk, p) ==
    IF isdir(disk, p) THEN [raised |-> "", files |-> disk[p].files]
    ELSE [raised |-> "OSError", files |-> {}]

----------------------------------------------------------------------------
(* Results of the handlers *)

\* a handler's outcome: a response it returned, an HTTPException it raised,
\* or any other fault it raised; with the side effects it had
Outcome(how, st, lg, chunks, stdin, p) ==
    [how |-> how, status |-> st, log |-> lg, starting_values |-> chunks,
     inputstream |-> stdin, proc |-> p]

\* the result of one whole request
Result(st, lg, disk, chunks, stdin, p) ==
    [status |-> st, log |-> lg, fs |-> disk, starting_values |-> chunks,
     inputstream |-> stdin, proc |-> p]

\* exc.HTTPxxx()(environ, start_response): the error response as a WSGI app
HTTPError(st, lg, disk) ==
    Result(st, lg \o <<"start_response">>, disk, <<>>, "none", "none")

\* a fault that leaves the bridge without start_response having been called
Escapes(fault, lg, disk) ==
    Result(fault, lg, disk, <<>>, "none", "none")

----------------------------------------------------------------------------
(* GitRepository *)

\* GitRepository.__init__: "" when the object is built, else the fault raised
GitRepository_init(disk, content_path) ==
    LET ls == listdir(disk, content_path)
        files == {lower(f) : f \in ls.files}
    IN  IF ls.raised # "" THEN ls.raised
        ELSE IF (git_folder_signature \cap files) # git_folder_signature
             THEN "AssertionError"
             ELSE ""

\* the pre-seeded first chunk of the info/refs body
smart_server_advert(git_command) == ServicePrefix \o git_command

\* the length prefix raised by one for a newline that is never appended
advertisement_counting_newline(git_command) ==
    rjust(hex(Len(smart_server_advert(git_command)) + 5), 4, "0")
        \o smart_server_advert(git_command) \o FlushMarker

advertisement(git_command) ==
    rjust(hex(Len(smart_server_advert(git_command)) + 4), 4, "0")
        \o smart_server_advert(git_command) \o FlushMarker

\* request.GET['service']
HasService(req) == \E kv \in req.GET : kv[1] = "service"
ServiceOf(req) == (CHOOSE kv \in req.GET : kv[1] = "service")[2]

\* GitRepository.inforefs
inforefs(req, env) ==
    IF ~HasService(req)
    THEN Outcome("raised", "KeyError", <<>>, <<>>, "none", "none")
    ELSE IF ServiceOf(req) \notin commands
    THEN Outcome("returned", "405 Method Not Allowed", <<>>, <<>>, "none", "none")
    ELSE IF env = "spawn_fails"
    THEN Outcome("raised_http", "417 Expectation Failed", <<>>, <<>>, "none", "none")
    ELSE Outcome("returned", "200 OK", <<"SubprocessIOChunker">>,
                 <<advertisement(ServiceOf(req))>>, "none", "running")

\* the stdin handed to the service subprocess
InputStreamOf(req) ==
    IF req.CONTENT_LENGTH # {} THEN "FileWrapper" ELSE "wsgi.input"

\* GitRepository.backend
backend(req, env) ==
    LET git_command == strip(req.path_info, "/")
    IN  IF git_command \notin commands
        THEN Outcome("returned", "405 Method Not Allowed", <<>>, <<>>, "none", "none")
        ELSE IF env = "spawn_fails"
        THEN Outcome("raised_http", "417 Expectation Failed", <<>>, <<>>, "none", "none")
        ELSE IF git_command = GitReceivePack
        THEN IF env = "refresh_oserror"
             THEN Outcome("raised", "OSError",
                          <<"SubprocessIOChunker", "update-server-info">>,
                          <<>>, InputStreamOf(req), "running")
             ELSE Outcome("returned", "200 OK",
                          <<"SubprocessIOChunker", "update-server-info">>,
                          <<>>, InputStreamOf(req), "running")
        ELSE Outcome("returned", "200 OK", <<"SubprocessIOChunker">>,
                     <<>>, InputStreamOf(req), "running")

\* the handler GitRepository.__call__ selects; unbound when neither test holds
SelectApp(req) ==
    IF startswith(req.path_info, InfoRefs) THEN "inforefs"
    ELSE IF {a \in valid_accepts : a \in req.accept} # {} THEN "backend"
    ELSE "unbound"

\* GitRepository.__call__
GitRepository_call(req, env, disk) ==
    LET app == SelectApp(req)
        o == CASE app = "inforefs" -> inforefs(req, env)
               [] app = "backend"  -> backend(req, env)
               [] OTHER -> Outcome("raised", "UnboundLocalError", <<>>, <<>>,
                                   "none", "none")
        st == IF o.how = "raised" THEN "500 Internal Server Error" ELSE o.status
        \* on a fault the response body is the error page: the subprocess
        \* already started is left without a reader
        p == IF o.how = "raised" /\ o.proc = "running" THEN "orphaned" ELSE o.proc
    IN  Result(st,
               <<"GitRepository.__call__">> \o o.log \o <<"start_response">>,
               disk, o.starting_values, o.inputstream, p)

----------------------------------------------------------------------------
(* GitDirectory *)

\* the callables a hook attribute can be bound to
DefaultPreHook == "GitDirectory.pre_clone_hook"
DefaultPostHook == "GitDirectory.post_clone_hook"
SuppliedPreHook == "kwargs['pre_clone_hook']"
SuppliedPostHook == "kwargs['post_clone_hook']"

\* GitDirectory.__init__: the attributes of the object built
GitDirectory_init(ac, kw) ==
    LET pre1 == IF "pre_clone_hook" \in kw THEN SuppliedPreHook ELSE DefaultPreHook
        pre2 == IF "post_clone_hook" \in kw THEN SuppliedPostHook ELSE pre1
    IN  [auto_create |-> ac, pre_clone_hook |-> pre2,
         post_clone_hook |-> DefaultPostHook]

\* Request.path_info_pop(): None for an empty path, else the first segment
\* and the path that is left
path_info_pop(path) ==
    IF path = <<>> THEN [none |-> TRUE, segment |-> <<>>, path_info |-> <<>>]
    ELSE LET stripped == lstrip(path, "/")
             f == find(stripped, "/")
             idx == IF f = -1 THEN Len(stripped) ELSE f
         IN  [none |-> FALSE,
              segment |-> SubSeq(stripped, 1, idx),
              path_info |-> SubSeq(stripped, idx + 1, Len(stripped))]

\* the containment test of GitDirectory.__call__:
\* `self.content_path not in content_path` is false
PassesContainment(base, content_path) == contains(content_path, base)

\* a caller-supplied hook may refuse the creation by raising an HTTPException
HookRaises(hook, env) ==
    hook \in {SuppliedPreHook, SuppliedPostHook} /\ env = "hook_raises"

\* subprocess.call('git init --quiet --bare ...'): the disk afterwards
git_init(disk, content_path, env) ==
    IF env = "init_fails" THEN disk
    ELSE [disk EXCEPT ![content_path] = Dir(GitInitEntries)]

\* self.repository_app(content_path) followed by app(environ, start_response)
Delegate(req, env, disk, content_path, lg) ==
    LET built == GitRepository_init(disk, content_path)
    IN  IF built # "" THEN Escapes(built, lg, disk)
        ELSE LET r == GitRepository_call(req, env, disk)
             IN  [r EXCEPT !.log = lg \o r.log]

\* the auto-create branch of GitDirectory.__call__
AutoCreate(self, req, env, disk, content_path) ==
    IF HookRaises(self.pre_clone_hook, env)
    THEN HTTPError("401 Unauthorized", <<self.pre_clone_hook>>, disk)
    ELSE LET disk2 == git_init(disk, content_path, env)
         IN  IF HookRaises(self.post_clone_hook, env)
             THEN HTTPError("401 Unauthorized",
                            <<self.pre_clone_hook, "git init", self.post_clone_hook>>,
                            disk2)
             ELSE Delegate(req, env, disk2, content_path,
                           <<self.pre_clone_hook, "git init", self.post_clone_hook>>)

\* the auto-create switch left out of the test
ShouldAutoCreate_ignoring_switch(self, req) ==
    ResultType(GitReceivePack) \in req.accept

\* the test that guards the auto-create branch
ShouldAutoCreate(self, req) ==
    self.auto_create /\ ResultType(GitReceivePack) \in req.accept

\* GitDirectory.__call__
GitDirectory_call(self, req, env, disk) ==
    LET popped == path_info_pop(req.path_info)
        repo_name == popped.segment
        rest == [req EXCEPT !.path_info = popped.path_info]
        content_path == realpath(join(BasePath, repo_name))
    IN  IF popped.none THEN Escapes("AttributeError", <<>>, disk)
        ELSE IF ~endswith(repo_name, DotGit)
        THEN HTTPError("404 Not Found", <<>>, disk)
        ELSE IF ~PassesContainment(BasePath, content_path)
        THEN HTTPError("403 Forbidden", <<>>, disk)
        ELSE IF GitRepository_init(disk, content_path) = ""
        THEN LET r == GitRepository_call(rest, env, disk) IN r
        ELSE IF isdir(disk, content_path)
        THEN Delegate(rest, env, disk, content_path, <<>>)
        ELSE IF ShouldAutoCreate(self, req)
        THEN AutoCreate(self, rest, env, disk, content_path)
        ELSE HTTPError("404 Not Found", <<>>, disk)

----------------------------------------------------------------------------
(* Requests and the operating system *)

\* first path segments a client may send
RepoNames == {Name("r"), Name("d"), Name("n"), Name("e"), Name("p"), Name("q"),
              <<"x">>}

\* what may follow the repository name
ServicePaths == {Slash \o GitUploadPack, Slash \o GitReceivePack}

MakeRequest(path, get, accept, cl) ==
    [path_info |-> path, GET |-> get, accept |-> accept, CONTENT_LENGTH |-> cl]

\* the types `in request.accept` holds for
AcceptValues == {{}, {ResultType(GitUploadPack)}, {ResultType(GitReceivePack)}}

\* query strings of an info/refs request
QueryValues == {{}} \cup {{<<"service", c>>} : c \in commands \cup {GitOther}}

Requests ==
    {MakeRequest(path, {}, a, {}) :
        path \in {<<>>, Slash}, a \in AcceptValues}
    \cup
    {MakeRequest(Slash \o n \o rest, {}, a, {}) :
        n \in RepoNames, rest \in {<<>>, Slash \o GitOther}, a \in AcceptValues}
    \cup
    {MakeRequest(Slash \o n \o InfoRefs, q, a, {}) :
        n \in RepoNames, q \in QueryValues, a \in AcceptValues}
    \cup
    {MakeRequest(Slash \o n \o rest, {}, a, cl) :
        n \in RepoNames, rest \in ServicePaths, a \in AcceptValues,
        cl \in {{}, {MaxContentLength}}}

NoRequest == MakeRequest(<<>>, {}, {}, {})

\* what the operating system and the caller's hooks do during one request
Environments == {"ok", "spawn_fails", "refresh_exits_nonzero", "refresh_oserror",
                 "init_fails", "hook_raises"}

Self == [auto_create |-> auto_create, pre_clone_hook |-> pre_clone_hook,
         post_clone_hook |-> post_clone_hook]

----------------------------------------------------------------------------
(* The bridge as a state machine *)

ReaderIdle ==
    /\ content_length = 0
    /\ remain = 0
    /\ fd_avail = 0
    /\ returned = 0
    /\ read_at = 0
    /\ data = [kind |-> "unread", len |-> 0]
    /\ fd_called = FALSE

Init ==
    /\ \E ac \in BOOLEAN, kw \in SUBSET {"pre_clone_hook", "post_clone_hook"} :
          LET self == GitDirectory_init(ac, kw)
          IN  /\ auto_create = self.auto_create
              /\ pre_clone_hook = self.pre_clone_hook
              /\ post_clone_hook = self.post_clone_hook
              /\ kwargs = kw
    /\ fs = InitialDisk
    /\ fs_before = InitialDisk
    /\ request = NoRequest
    /\ environment = "ok"
    /\ status = "idle"
    /\ log = <<>>
    /\ starting_values = <<>>
    /\ inputstream = "none"
    /\ proc = "none"
    /\ ReaderIdle

\* the server runtime hands one request to GitDirectory.__call__
Serve ==
    /\ status = "idle"
    /\ \E req \in Requests, env \in Environments :
        LET r == GitDirectory_call(Self, req, env, fs)
        IN  /\ request' = req
            /\ environment' = env
            /\ fs_before' = fs
            /\ fs' = r.fs
            /\ status' = r.status
            /\ log' = r.log
            /\ starting_values' = r.starting_values
            /\ inputstream' = r.inputstream
            /\ proc' = r.proc
            /\ UNCHANGED <<auto_create, pre_clone_hook, post_clone_hook, kwargs>>
            /\ UNCHANGED readerVars

\* the server runtime iterates the returned app_iter to its end
Drain ==
    /\ proc = "running"
    /\ proc' = "drained"
    /\ log' = Append(log, "app_iter exhausted")
    /\ UNCHANGED <<auto_create, pre_clone_hook, post_clone_hook, kwargs, fs,
                   fs_before, request, environment, status, starting_values,
                   inputstream>>
    /\ UNCHANGED readerVars

\* the server runtime is done with the request and takes the next one
Close ==
    /\ status # "idle"
    /\ request' = NoRequest
    /\ environment' = "ok"
    /\ fs_before' = fs
    /\ status' = "idle"
    /\ log' = <<>>
    /\ starting_values' = <<>>
    /\ inputstream' = "none"
    /\ proc' = "none"
    /\ UNCHANGED <<auto_create, pre_clone_hook, post_clone_hook, kwargs, fs>>
    /\ UNCHANGED readerVars

Next == Serve \/ Drain \/ Close

Spec == Init /\ [][Next]_vars

----------------------------------------------------------------------------
(* FileWrapper: the bounded reader handed to the service subprocess *)

Min(a, b) == IF a <= b THEN a ELSE b

\* byte counts fd.read(n) may return: nothing at end of file, else at
\* least one byte and at most n (a socket may deliver fewer than asked)
FdRead(n, avail) == IF avail = 0 \/ n = 0 THEN {0} ELSE 1..Min(n, avail)

Bytes(n) == [kind |-> "bytes", len |-> n]
None == [kind |-> "None", len |-> 0]

\* FileWrapper.__init__(fd, content_length) over a stream holding more
InitReader ==
    /\ auto_create = TRUE
    /\ pre_clone_hook = DefaultPreHook
    /\ post_clone_hook = DefaultPostHook
    /\ kwargs = {}
    /\ fs = InitialDisk
    /\ fs_before = InitialDisk
    /\ request = NoRequest
    /\ environment = "ok"
    /\ status = "idle"
    /\ log = <<>>
    /\ starting_values = <<>>
    /\ inputstream = "FileWrapper"
    /\ proc = "running"
    /\ content_length \in 0..MaxContentLength
    /\ remain = content_length
    /\ fd_avail \in (content_length + 1)..(content_length + MaxExtra)
    /\ returned = 0
    /\ read_at = 0
    /\ data = [kind |-> "unread", len |-> 0]
    /\ fd_called = FALSE

\* FileWrapper.read(size), the underlying stream answering
read(size) ==
    /\ read_at' = returned
    /\ IF size <= remain
       THEN \E got \in FdRead(size, fd_avail) :
                /\ data' = Bytes(got)
                /\ fd_avail' = fd_avail - got
                /\ returned' = returned + got
                /\ remain' = remain - size
                /\ fd_called' = TRUE
       ELSE IF remain # 0
       THEN \E got \in FdRead(remain, fd_avail) :
                /\ data' = Bytes(got)
                /\ fd_avail' = fd_avail - got
                /\ returned' = returned + got
                /\ remain' = 0
                /\ fd_called' = TRUE
       ELSE /\ data' = None
            /\ fd_called' = FALSE
            /\ UNCHANGED <<fd_avail, returned, remain>>
    /\ UNCHANGED <<content_length>>
    /\ UNCHANGED routerVars

\* the subprocess bridge pulls its stdin in blocks
Read == \E size \in 1..MaxReadSize : read(size)

\* FileWrapper.read(size) when fd.read raises socket.error
ReadFails ==
    /\ remain # 0
    /\ read_at' = returned
    /\ data' = [kind |-> "raised", len |-> 0]
    /\ fd_called' = TRUE
    /\ UNCHANGED <<content_length, remain, fd_avail, returned>>
    /\ UNCHANGED routerVars

NextReader == Read \/ ReadFails

SpecReader == InitReader /\ [][NextReader]_vars

----------------------------------------------------------------------------
(* Vocabulary of the properties *)

Served == status # "idle"

Popped == path_info_pop(request.path_info)
RepoName == Popped.segment
RestPath == Popped.path_info
ContentPath == realpath(join(BasePath, RepoName))

\* the request names a repository: its first segment ends in '.git'
NamedRepo == Served /\ ~Popped.none /\ endswith(RepoName, DotGit)

Count(e) == Cardinality({i \in DOMAIN log : log[i] = e})

\* index of the first e in the log, 0 when there is none
Position(e) ==
    IF Count(e) = 0 THEN 0
    ELSE CHOOSE i \in DOMAIN log :
            log[i] = e /\ \A j \in 1..(i - 1) : log[j] # e

HTTPStatuses == {"200 OK", "401 Unauthorized", "403 Forbidden", "404 Not Found",
                 "405 Method Not Allowed", "417 Expectation Failed",
                 "500 Internal Server Error"}

\* the request reached GitRepository.inforefs
RoutedToInforefs ==
    /\ NamedRepo
    /\ Count("GitRepository.__call__") > 0
    /\ startswith(RestPath, InfoRefs)

\* the request reached the point where a handler starts its subprocess
LaunchAttempted ==
    /\ NamedRepo
    /\ Count("GitRepository.__call__") > 0
    /\ LET rest == [request EXCEPT !.path_info = RestPath]
       IN  \/ SelectApp(rest) = "inforefs"
              /\ HasService(rest) /\ ServiceOf(rest) \in commands
           \/ SelectApp(rest) = "backend"
              /\ strip(RestPath, "/") \in commands

WantsPush == ResultType(GitReceivePack) \in request.accept

HexDigitSet == {HexDigits[i] : i \in DOMAIN HexDigits}

\* the number a string of lowercase hexadecimal digits denotes
RECURSIVE HexValue(_)
HexValue(s) ==
    IF s = <<>> THEN 0
    ELSE 16 * HexValue(SubSeq(s, 1, Len(s) - 1))
         + (CHOOSE i \in DOMAIN HexDigits : HexDigits[i] = s[Len(s)]) - 1

----------------------------------------------------------------------------
(* C1: a request for '<name>.git' whose canonical path is not below the
   canonical content directory is answered 403 Forbidden, and nothing else
   happens in it: no directory created, no git init, no hook, no handler. *)
C1_Containment ==
    (NamedRepo /\ ~IsDescendant(ContentPath, BasePath))
        => /\ status = "403 Forbidden"
           /\ log = <<"start_response">>
           /\ fs = fs_before

\* a link leading out of the content directory is refused
C1_Refused ==
    NamedRepo /\ ContentPath = OutEtc /\ status = "403 Forbidden"

(* C2: an info/refs request whose service parameter is absent or not one of
   the two whitelisted commands is answered 405 Method Not Allowed and
   starts no subprocess. *)
C2_Whitelist ==
    (RoutedToInforefs
        /\ (~HasService(request) \/ ServiceOf(request) \notin commands))
        => /\ status = "405 Method Not Allowed"
           /\ Count("SubprocessIOChunker") = 0

\* an unknown service is refused without a subprocess
C2_UnknownService ==
    /\ RoutedToInforefs
    /\ HasService(request)
    /\ ServiceOf(request) = GitOther
    /\ status = "405 Method Not Allowed"

\* an advertisement was produced for a whitelisted service
Advertised ==
    /\ RoutedToInforefs
    /\ HasService(request)
    /\ ServiceOf(request) \in commands
    /\ status = "200 OK"

(* C3 as stated: the first chunk is the 4-digit hexadecimal of
   len(payload)+5, the payload, one newline, then '0000', and the prefix
   decodes to the number of bytes before the flush marker. *)
C3_FrameWithNewline ==
    Advertised =>
        LET payload == ServicePrefix \o ServiceOf(request)
            chunk == starting_values[1]
            n == Len(payload)
        IN  /\ Len(starting_values) = 1
            /\ Len(chunk) = n + 9
            /\ \A i \in 1..4 : chunk[i] \in HexDigitSet
            /\ HexValue(SubSeq(chunk, 1, 4)) = n + 5
            /\ SubSeq(chunk, 5, n + 4) = payload
            /\ SubSeq(chunk, n + 5, n + 9) = <<"\n">> \o FlushMarker
            /\ HexValue(SubSeq(chunk, 1, 4)) = Len(chunk) - 4

(* C3 amended: the first chunk is the 4-digit lowercase zero-padded
   hexadecimal of len(payload)+4, the payload, no newline, then '0000', and
   the prefix decodes to the number of bytes before the flush marker. *)
C3_Frame ==
    Advertised =>
        LET payload == ServicePrefix \o ServiceOf(request)
            chunk == starting_values[1]
            n == Len(payload)
        IN  /\ Len(starting_values) = 1
            /\ Len(chunk) = n + 8
            /\ \A i \in 1..4 : chunk[i] \in HexDigitSet
            /\ HexValue(SubSeq(chunk, 1, 4)) = n + 4
            /\ SubSeq(chunk, 5, n + 4) = payload
            /\ SubSeq(chunk, n + 5, n + 8) = FlushMarker
            /\ \A i \in DOMAIN chunk : chunk[i] # "\n"
            /\ HexValue(SubSeq(chunk, 1, 4)) = Len(chunk) - 4

\* the advertisement for git-upload-pack went out, prefixed 001d
C3_Advertised ==
    /\ Advertised
    /\ ServiceOf(request) = GitUploadPack
    /\ SubSeq(starting_values[1], 1, 4) = <<"0","0","1","d">>

(* C4: a FileWrapper over a stream holding more than Content-Length bytes
   never hands out more than Content-Length bytes, does not report end of
   stream before exactly that many were handed out, and a read issued once
   they were handed out returns end of stream without touching the stream. *)
C4_BoundedReader ==
    /\ returned <= content_length
    /\ (data.kind = "None" => returned = content_length)
    /\ (data.kind # "unread" /\ read_at = content_length)
           => (data.kind = "None" /\ ~fd_called)

\* all of Content-Length was handed out and the next read ended the stream
C4_Exhausted ==
    /\ content_length = MaxContentLength
    /\ returned = content_length
    /\ data.kind = "None"

(* C5: a request for a '<name>.git' that passes the containment test and
   does not exist is answered 404 Not Found with the disk unchanged, no git
   init, no hook and no subprocess, whenever auto-create is off or the
   Accept header does not contain the receive-pack result type. *)
C5_NotFound ==
    (NamedRepo
        /\ PassesContainment(BasePath, ContentPath)
        /\ ~isdir(fs_before, ContentPath)
        /\ (~auto_create \/ ~WantsPush))
        => /\ status = "404 Not Found"
           /\ log = <<"start_response">>
           /\ fs = fs_before
           /\ proc = "none"

\* a push to a missing repository with auto-create off
C5_PushRefused ==
    /\ NamedRepo
    /\ ContentPath = InMissing
    /\ ~isdir(fs_before, ContentPath)
    /\ RestPath = Slash \o GitReceivePack
    /\ WantsPush
    /\ ~auto_create
    /\ status = "404 Not Found"

(* C6: with auto-create on and both hooks supplied, a push to a contained,
   missing '<name>.git' runs, once each and in this order: the supplied
   pre-create hook, git init, the supplied post-create hook, the handler. *)
C6_HookOrder ==
    (NamedRepo
        /\ IsDescendant(ContentPath, BasePath)
        /\ ~isdir(fs_before, ContentPath)
        /\ auto_create
        /\ kwargs = {"pre_clone_hook", "post_clone_hook"}
        /\ WantsPush
        /\ environment = "ok")
        => /\ Len(log) >= 4
           /\ SubSeq(log, 1, 4) = <<SuppliedPreHook, "git init", SuppliedPostHook,
                                   "GitRepository.__call__">>
           /\ Count(SuppliedPreHook) = 1
           /\ Count("git init") = 1
           /\ Count(SuppliedPostHook) = 1
           /\ Count("GitRepository.__call__") = 1

(* C7: when the contained '<name>.git' is a directory that fails the
   validity check, the request is still delegated to a handler for it and
   no fault leaves the router. *)
C7_TolerantFallback ==
    (NamedRepo
        /\ IsDescendant(ContentPath, BasePath)
        /\ isdir(fs_before, ContentPath)
        /\ GitRepository_init(fs_before, ContentPath) = "AssertionError")
        => /\ Count("GitRepository.__call__") = 1
           /\ status \in HTTPStatuses

(* C8: every request gets start_response called exactly once; a launch
   failure becomes 417, and any other fault (no matching route, an empty
   path, a handler that cannot be built) becomes 500 instead of leaving
   the bridge as an exception. *)
C8_ErrorMapping ==
    Served =>
        /\ Count("start_response") = 1
        /\ status \in HTTPStatuses
        /\ (Popped.none => status = "500 Internal Server Error")
        /\ (NamedRepo /\ Count("GitRepository.__call__") > 0
                /\ SelectApp([request EXCEPT !.path_info = RestPath]) = "unbound")
               => status = "500 Internal Server Error"
        /\ (LaunchAttempted /\ environment = "spawn_fails")
               => status = "417 Expectation Failed"

(* C9: update-server-info is started only for git-receive-pack and only
   after the push subprocess's output has been drained, and its failure
   leaves the push response's status alone. *)
C9_RefreshAfterPush ==
    (Served /\ Count("update-server-info") > 0)
        => /\ strip(RestPath, "/") = GitReceivePack
           /\ Position("app_iter exhausted") > 0
           /\ Position("app_iter exhausted") < Position("update-server-info")
           /\ status = "200 OK"

(* C10: a request that ends in a validation rejection (404, 403, 405) has
   started no subprocess and created nothing on disk. *)
C10_FailFast ==
    (Served /\ status \in {"404 Not Found", "403 Forbidden",
                           "405 Method Not Allowed"})
        => /\ Count("SubprocessIOChunker") = 0
           /\ Count("git init") = 0
           /\ fs = fs_before

====
